---- MODULE Spec2Model ----
(***************************************************************************)
(* brownant/pipeline/base.py: PipelineProperty, a cached_property whose    *)
(* constructor classifies its keyword arguments (attr_names / required     *)
(* instance attributes / options), checks the required attributes, calls   *)
(* the prepare hook, and whose get_attr reads a configurably named         *)
(* attribute of the target object.                                         *)
(*                                                                         *)
(* Names are sequences of one-character strings, so that                   *)
(* name.endswith("_attr") and ", ".join(...) are computed, not assumed.    *)
(* Keyword names range over ordinary names: none collides with an          *)
(* attribute the descriptor itself uses (attr_names, options, prepare).    *)
(*                                                                         *)
(* The read protocol is the one PipelineProperty inherits from             *)
(* werkzeug.utils.cached_property (line 1, line 4):                        *)
(*     value = obj.__dict__.get(self.__name__, _missing)                   *)
(*     if value is _missing:                                               *)
(*         value = self.func(obj)                                          *)
(*         obj.__dict__[self.__name__] = value                             *)
(*     return value                                                        *)
(* with self.func = self.provide_value (line 27) and self.__name__ = None  *)
(* (line 28). provide_value is abstract in base.py: it is modelled as a    *)
(* subclass that computes its value from the target's field `body` and    *)
(* writes nothing to the target.                                           *)
(***************************************************************************)
EXTENDS Integers, Sequences, FiniteSets, TLC

(* ---------------------------------------------------------------- bounds *)

\* The number of operations a run performs: constructor calls, property
\* reads and get_attr calls.
MaxOps == 3

(* ----------------------------------------------------------------- names *)

Url == <<"u", "r", "l">>
RawAttr == <<"r", "_", "a", "t", "t", "r">>
Attr == <<"a", "t", "t", "r">>

\* The keyword-argument names a call may use.
NamePool == {Url, RawAttr, Attr}

\* The values a keyword argument may carry: the name of a plain field of
\* the target, and the class attribute under which descriptor d1 is attached.
ArgValues == {"body", "a"}

Descs == {"d1", "d2"}

Targets == {"t1", "t2"}

\* The target class body: `a = <d1>` and `b = <d2>`.
ClassAttrs == [a |-> "d1", b |-> "d2"]

\* The data a plain field of a target may hold.
FieldData == {0, 1}

EmptyMap == [x \in {} |-> 0]

\* "_attr"
AttrSuffix == <<"_", "a", "t", "t", "r">>

\* str.endswith
EndsWith(s, suf) ==
    /\ Len(s) >= Len(suf)
    /\ SubSeq(s, Len(s) - Len(suf) + 1, Len(s)) = suf

\* ", "
Separator == <<",", " ">>

\* str.join over a sequence of names
RECURSIVE Join(_)
Join(names) ==
    IF Len(names) = 0 THEN <<>>
    ELSE IF Len(names) = 1 THEN names[1]
    ELSE names[1] \o Separator \o Join(Tail(names))

\* The orders in which a set can be iterated.
Orders(S) ==
    {s \in [1..Cardinality(S) -> S] :
        \A i, j \in 1..Cardinality(S) : i # j => s[i] # s[j]}

\* "required attrs %r" % text
FormatMessage(text) == <<"required attrs ", "'">> \o text \o <<"'">>

NoError == [type |-> "none", msg |-> <<>>]

\* The value of __name__ after construction.
NoneName == "None"

(* ----------------------------------------------------------------- state *)

VARIABLES
    required_attrs,  \* the class-level set of required names
    pc,              \* per descriptor: absent, new, loop, failed, ready
    kwargs,          \* per descriptor: the keyword arguments of the call
    todo,            \* per descriptor: the items the loop has not visited
    assigned_attrs,  \* per descriptor: the local set assigned_attrs
    attr_names,      \* per descriptor: self.attr_names
    options,         \* per descriptor: self.options
    inst,            \* per descriptor: the attributes set by setattr
    name,            \* per descriptor: self.__name__
    prepared,        \* per descriptor: how many times prepare() ran
    err,             \* per descriptor: the error construction raised
    objdict,         \* per target: the cache entries of obj.__dict__
    fields,          \* per target: its plain data fields
    nops,            \* operations so far
    last,            \* the last read operation and its outcome
    reads,           \* per descriptor and target: read accesses
    calls,           \* per descriptor and target: provide_value invocations
    raised,          \* per descriptor and target: invocations that raised
    rets,            \* per descriptor and target: the values reads returned
    lastread         \* per target: how the latest read on it ended

cvars == <<required_attrs, pc, kwargs, todo, assigned_attrs, attr_names,
           options, inst, name, prepared, err>>

rvars == <<objdict, fields, nops, last, reads, calls, raised, rets, lastread>>

vars == <<cvars, rvars>>

(* ---------------------------------------------------------- construction *)

\* Variant of Classify: the required-attribute test comes first.
ClassifySwapped(n, req) ==
    IF n \in req THEN "setattr"
    ELSE IF EndsWith(n, AttrSuffix) THEN "attr_names"
    ELSE "options"

\* The branch of the loop body a keyword name takes (lines 42-49).
Classify(n, req) ==
    IF EndsWith(n, AttrSuffix) THEN "attr_names"
    ELSE IF n \in req THEN "setattr"
    ELSE "options"

\* map[n] = v
Put(map, n, v) == (n :> v) @@ map

\* The keyword arguments a call may pass.
KwargSets == UNION {[S -> ArgValues] : S \in SUBSET NamePool}

\* __init__ up to the loop: the attributes are reset, the maps are empty.
Begin(d) ==
    /\ pc[d] = "new"
    /\ nops < MaxOps
    /\ nops' = nops + 1
    /\ \E kw \in KwargSets :
        /\ kwargs' = [kwargs EXCEPT ![d] = kw]
        /\ todo' = [todo EXCEPT ![d] = DOMAIN kw]
    /\ name' = [name EXCEPT ![d] = NoneName]
    /\ attr_names' = [attr_names EXCEPT ![d] = EmptyMap]
    /\ options' = [options EXCEPT ![d] = EmptyMap]
    /\ assigned_attrs' = [assigned_attrs EXCEPT ![d] = {}]
    /\ pc' = [pc EXCEPT ![d] = "loop"]
    /\ UNCHANGED <<required_attrs, inst, prepared, err, objdict, fields, last,
                   reads, calls, raised, rets, lastread>>

\* What one iteration assigns, for each destination.
LoopAttrNames(d, n) ==
    IF Classify(n, required_attrs) = "attr_names"
    THEN Put(attr_names[d], n, kwargs[d][n]) ELSE attr_names[d]

LoopInst(d, n) ==
    IF Classify(n, required_attrs) = "setattr"
    THEN Put(inst[d], n, kwargs[d][n]) ELSE inst[d]

\* Variant of LoopOptions: the last branch is an `if`, not an `else`.
LoopOptionsAll(d, n) ==
    IF Classify(n, required_attrs) # "attr_names"
    THEN Put(options[d], n, kwargs[d][n]) ELSE options[d]

LoopOptions(d, n) ==
    IF Classify(n, required_attrs) = "options"
    THEN Put(options[d], n, kwargs[d][n]) ELSE options[d]

\* One iteration of `for name, value in kwargs.items()`.
Loop(d) ==
    /\ pc[d] = "loop"
    /\ \E n \in todo[d] :
        /\ assigned_attrs' = [assigned_attrs EXCEPT ![d] = @ \cup {n}]
        /\ attr_names' = [attr_names EXCEPT ![d] = LoopAttrNames(d, n)]
        /\ inst' = [inst EXCEPT ![d] = LoopInst(d, n)]
        /\ options' = [options EXCEPT ![d] = LoopOptions(d, n)]
        /\ todo' = [todo EXCEPT ![d] = @ \ {n}]
    /\ UNCHANGED <<required_attrs, pc, kwargs, name, prepared, err, rvars>>

\* Variant of Lacked: only one of the missing names.
LackedFirstOnly(req, assigned) ==
    IF req \ assigned = {} THEN {}
    ELSE {CHOOSE n \in req \ assigned : TRUE}

\* lacked_attrs = self.required_attrs - assigned_attrs
Lacked(req, assigned) == req \ assigned

\* Variant of Checked: the check sits inside the loop.
CheckedEarly(d) == pc[d] = "loop"

\* The loop is over and `if lacked_attrs:` is evaluated.

Checked(d) == pc[d] = "loop" /\ todo[d] = {}

\* raise TypeError(...)
Raise(d) ==
    /\ Checked(d)
    /\ Lacked(required_attrs, assigned_attrs[d]) # {}
    /\ \E order \in Orders(Lacked(required_attrs, assigned_attrs[d])) :
        err' = [err EXCEPT ![d] =
                   [type |-> "TypeError", msg |-> FormatMessage(Join(order))]]
    /\ pc' = [pc EXCEPT ![d] = "failed"]
    /\ UNCHANGED <<required_attrs, kwargs, todo, assigned_attrs, attr_names,
                   options, inst, name, prepared, rvars>>

\* Variant of Passes: prepare is called whatever the check finds.
PassesUnchecked(d) == Checked(d)

\* Whether control reaches self.prepare().

Passes(d) == Checked(d) /\ Lacked(required_attrs, assigned_attrs[d]) = {}

\* self.prepare(), the base implementation (it assigns nothing), and return.
Prepare(d) ==
    /\ Passes(d)
    /\ prepared' = [prepared EXCEPT ![d] = @ + 1]
    /\ pc' = [pc EXCEPT ![d] = "ready"]
    /\ UNCHANGED <<required_attrs, kwargs, todo, assigned_attrs, attr_names,
                   options, inst, name, err, rvars>>

(* ------------------------------------------------------------ the target *)

\* A value a read returns, with the descriptor and the target it was computed
\* from ("-" for the content of a plain field).
Ret(by, of, data) ==
    [kind |-> "return", exc |-> "-", by |-> by, of |-> of, data |-> data]

\* An error a read raises.
Exc(e, by, of) ==
    [kind |-> "raise", exc |-> e, by |-> by, of |-> of, data |-> -1]

\* The sentinel _missing of cached_property.
Missing ==
    [kind |-> "missing", exc |-> "-", by |-> "-", of |-> "-", data |-> -1]

\* The subclass's provide_value(self, obj): it reads obj.body and returns a
\* value computed from it, or raises when obj has no such field.
ProvideValue(d, obj) ==
    IF "body" \in DOMAIN fields[obj]
    THEN Ret(d, obj, fields[obj]["body"])
    ELSE Exc("AttributeError", d, obj)

\* The target object's data changes (outside the descriptor).
SetField(t, v) ==
    /\ \A d \in Descs : pc[d] \in {"absent", "ready"}
    /\ IF "body" \in DOMAIN fields[t] THEN fields[t]["body"] # v ELSE TRUE
    /\ fields' = [fields EXCEPT ![t] = Put(@, "body", v)]
    /\ UNCHANGED <<cvars, objdict, nops, last, reads, calls, raised, rets,
                   lastread>>

(* ------------------------------------------------- the cached property *)

\* The key of the cache entry in obj.__dict__: self.__name__.
CacheKey(d) == name[d]

\* Variant of Owner: one store for every target.
OwnerShared(obj) == CHOOSE t \in Targets : TRUE

\* The object whose __dict__ holds the cache entry: the target itself.

Owner(obj) == obj

\* Variant of Lookup: the entry is never found.
LookupNever(dict, key) == Missing

\* obj.__dict__.get(self.__name__, _missing)

Lookup(dict, key) == IF key \in DOMAIN dict THEN dict[key] ELSE Missing

\* The value of the read: the cached one, else self.func(obj), which is
\* self.provide_value(obj).
GetResult(d, t) ==
    LET value == Lookup(objdict[Owner(t)], CacheKey(d))
    IN  IF value = Missing THEN ProvideValue(d, t) ELSE value

\* Variant of Store: the outcome is stored even when func raised.
StoreAlways(dict, key, res) == Put(dict, key, res)

\* obj.__dict__[self.__name__] = value, reached only when func returned.

Store(dict, key, res) ==
    IF res.kind = "return" THEN Put(dict, key, res) ELSE dict

\* Whether the read invokes provide_value.
Invokes(d, t) == Lookup(objdict[Owner(t)], CacheKey(d)) = Missing

\* cached_property.__get__(self, obj): the effect of one read of the
\* property d on the target t.
DoGet(d, t) ==
    /\ objdict' = [objdict EXCEPT ![Owner(t)] =
                      IF Invokes(d, t)
                      THEN Store(@, CacheKey(d), GetResult(d, t)) ELSE @]
    /\ reads' = [reads EXCEPT ![d][t] = @ + 1]
    /\ calls' = [calls EXCEPT ![d][t] = IF Invokes(d, t) THEN @ + 1 ELSE @]
    /\ raised' = [raised EXCEPT ![d][t] =
                     IF GetResult(d, t).kind = "raise" THEN @ + 1 ELSE @]
    /\ rets' = [rets EXCEPT ![d][t] =
                   IF GetResult(d, t).kind = "return"
                   THEN @ \cup {GetResult(d, t)} ELSE @]
    /\ lastread' = [lastread EXCEPT ![t] = GetResult(d, t).kind]

\* The class is defined: every descriptor of its body has been constructed.
ClassDefined == \A d \in Descs : pc[d] \in {"absent", "ready"}

\* A read access `obj.<property>` of the property d on the target t.
Get(d, t) ==
    /\ ClassDefined
    /\ pc[d] = "ready"
    /\ nops < MaxOps
    /\ DoGet(d, t)
    /\ nops' = nops + 1
    /\ last' = [op |-> "get", d |-> d, t |-> t, n |-> <<>>, prop |-> d,
                invoked |-> Invokes(d, t), res |-> GetResult(d, t)]
    /\ UNCHANGED <<cvars, fields>>

(* ------------------------------------------------------------- get_attr *)

\* The descriptor attached to the target's class under the attribute `a`,
\* or "-" when `a` is no lazily computed property of the class.
PropertyAt(a) ==
    IF a \in DOMAIN ClassAttrs /\ pc[ClassAttrs[a]] = "ready"
    THEN ClassAttrs[a] ELSE "-"

\* getattr(obj, attr_name)
GetAttrValue(d, t, a) ==
    IF PropertyAt(a) # "-" THEN GetResult(PropertyAt(a), t)
    ELSE IF a \in DOMAIN fields[t] THEN Ret("-", t, fields[t][a])
    ELSE Exc("AttributeError", d, t)

\* Variant of Resolve: a name never registered yields a default.
ResolveDirect(d, t, n) ==
    IF n \in DOMAIN attr_names[d] THEN GetAttrValue(d, t, attr_names[d][n])
    ELSE Ret("-", t, -1)

\* get_attr's result: self.attr_names[name], then getattr.

Resolve(d, t, n) ==
    IF n \in DOMAIN attr_names[d] THEN GetAttrValue(d, t, attr_names[d][n])
    ELSE Exc("KeyError", d, t)

\* The property getattr reads, if the resolved name is one.
ResolvedProperty(d, n) ==
    IF n \in DOMAIN attr_names[d] THEN PropertyAt(attr_names[d][n]) ELSE "-"

\* self.get_attr(obj, name)
GetAttr(d, t, n) ==
    /\ ClassDefined
    /\ pc[d] = "ready"
    /\ nops < MaxOps
    /\ IF ResolvedProperty(d, n) # "-"
       THEN DoGet(ResolvedProperty(d, n), t)
       ELSE UNCHANGED <<objdict, reads, calls, raised, rets, lastread>>
    /\ nops' = nops + 1
    /\ last' = [op |-> "get_attr", d |-> d, t |-> t, n |-> n,
                prop |-> ResolvedProperty(d, n),
                invoked |-> IF ResolvedProperty(d, n) # "-"
                            THEN Invokes(ResolvedProperty(d, n), t)
                            ELSE FALSE,
                res |-> Resolve(d, t, n)]
    /\ UNCHANGED <<cvars, fields>>

(* -------------------------------------------------------- specifications *)

NoLast ==
    [op |-> "none", d |-> "-", t |-> "-", n |-> <<>>, prop |-> "-",
     invoked |-> FALSE, res |-> Missing]

InitTargets ==
    /\ objdict = [t \in Targets |-> EmptyMap]
    /\ fields = [t \in Targets |-> EmptyMap]
    /\ nops = 0
    /\ last = NoLast
    /\ reads = [d \in Descs |-> [t \in Targets |-> 0]]
    /\ calls = [d \in Descs |-> [t \in Targets |-> 0]]
    /\ raised = [d \in Descs |-> [t \in Targets |-> 0]]
    /\ rets = [d \in Descs |-> [t \in Targets |-> {}]]
    /\ lastread = [t \in Targets |-> "none"]

\* A subclass with any required_attrs; the class body constructs d1 alone.
Init ==
    /\ required_attrs \in SUBSET NamePool
    /\ pc = [d \in Descs |-> IF d = "d1" THEN "new" ELSE "absent"]
    /\ kwargs = [d \in Descs |-> EmptyMap]
    /\ todo = [d \in Descs |-> {}]
    /\ assigned_attrs = [d \in Descs |-> {}]
    /\ attr_names = [d \in Descs |-> EmptyMap]
    /\ options = [d \in Descs |-> EmptyMap]
    /\ inst = [d \in Descs |-> EmptyMap]
    /\ name = [d \in Descs |-> "unset"]
    /\ prepared = [d \in Descs |-> 0]
    /\ err = [d \in Descs |-> NoError]
    /\ InitTargets

Next ==
    \/ \E d \in Descs : Begin(d)
    \/ \E d \in Descs : Loop(d)
    \/ \E d \in Descs : Raise(d)
    \/ \E d \in Descs : Prepare(d)
    \/ \E d \in Descs, t \in Targets : Get(d, t)
    \/ \E d \in Descs, t \in Targets, n \in NamePool : GetAttr(d, t, n)
    \/ \E t \in Targets, v \in FieldData : SetField(t, v)

Spec == Init /\ [][Next]_vars

\* The keyword arguments of the two descriptors of the class body
\*     a = P(url="body", r_attr="body");  b = P(url="a", r_attr="a")
\* of a subclass P with required_attrs = {"url"}.
CacheKwargs ==
    [d \in Descs |->
        IF d = "d1" THEN (Url :> "body") @@ (RawAttr :> "body")
        ELSE (Url :> "a") @@ (RawAttr :> "a")]

\* What __init__ leaves in one destination after its loop over kw.
Constructed(kw, req, dest) ==
    [n \in {m \in DOMAIN kw : Classify(m, req) = dest} |-> kw[n]]

\* The state after the class body ran: both descriptors are constructed.
InitCache ==
    /\ required_attrs = {Url}
    /\ pc = [d \in Descs |-> "ready"]
    /\ kwargs = CacheKwargs
    /\ todo = [d \in Descs |-> {}]
    /\ assigned_attrs = [d \in Descs |-> DOMAIN CacheKwargs[d]]
    /\ attr_names =
        [d \in Descs |-> Constructed(CacheKwargs[d], {Url}, "attr_names")]
    /\ options =
        [d \in Descs |-> Constructed(CacheKwargs[d], {Url}, "options")]
    /\ inst = [d \in Descs |-> Constructed(CacheKwargs[d], {Url}, "setattr")]
    /\ name = [d \in Descs |-> NoneName]
    /\ prepared = [d \in Descs |-> 1]
    /\ err = [d \in Descs |-> NoError]
    /\ InitTargets

NextCache ==
    \/ \E d \in Descs, t \in Targets : Get(d, t)
    \/ \E d \in Descs, t \in Targets, n \in NamePool : GetAttr(d, t, n)
    \/ \E t \in Targets, v \in FieldData : SetField(t, v)

SpecCache == InitCache /\ [][NextCache]_vars

(* ------------------------------------------------ reading the outcomes *)

\* The names a separator-joined text lists.
RECURSIVE SplitNames(_, _)
SplitNames(text, cur) ==
    IF Len(text) = 0 THEN {cur}
    ELSE IF Len(text) >= 2 /\ SubSeq(text, 1, 2) = Separator
         THEN {cur} \cup SplitNames(SubSeq(text, 3, Len(text)), <<>>)
         ELSE SplitNames(Tail(text), Append(cur, Head(text)))

\* The names the error message lists, between its quotes.
NamesListed(msg) ==
    IF Len(msg) < 4 THEN {} ELSE SplitNames(SubSeq(msg, 3, Len(msg) - 1), <<>>)

Supplied(d) == DOMAIN kwargs[d]

Finished(d) == pc[d] \in {"failed", "ready"}

\* Every supplied key is in the destination the precedence gives it, with
\* its value, and in no other; no destination holds anything else.
Landed(d) ==
    /\ \A n \in Supplied(d) :
        /\ EndsWith(n, AttrSuffix) =>
            /\ n \in DOMAIN attr_names[d] /\ attr_names[d][n] = kwargs[d][n]
            /\ n \notin DOMAIN inst[d] /\ n \notin DOMAIN options[d]
        /\ (~EndsWith(n, AttrSuffix) /\ n \in required_attrs) =>
            /\ n \in DOMAIN inst[d] /\ inst[d][n] = kwargs[d][n]
            /\ n \notin DOMAIN attr_names[d] /\ n \notin DOMAIN options[d]
        /\ (~EndsWith(n, AttrSuffix) /\ n \notin required_attrs) =>
            /\ n \in DOMAIN options[d] /\ options[d][n] = kwargs[d][n]
            /\ n \notin DOMAIN attr_names[d] /\ n \notin DOMAIN inst[d]
    /\ DOMAIN attr_names[d] \cup DOMAIN inst[d] \cup DOMAIN options[d]
           = Supplied(d)

\* No other property has been read on the target.
OnlyReader(d, t) == \A e \in Descs \ {d} : reads[e][t] = 0

\* The step is a read of a lazily computed property (directly, or through
\* get_attr resolving to it).
ReadStep == nops' = nops + 1 /\ last'.prop # "-"

\* The step is a get_attr call.
GetAttrStep == nops' = nops + 1 /\ last'.op = "get_attr"

(* ---------------------------------------------------------------- claims *)

TheoremC2 ==
    \A d \in Descs :
        Finished(d) =>
            /\ (pc[d] = "failed") <=> (required_attrs \ Supplied(d) # {})
            /\ pc[d] = "failed" =>
                /\ err[d].type = "TypeError"
                /\ NamesListed(err[d].msg) = required_attrs \ Supplied(d)

\* C2 witness: a failed construction that lacks two names.
WitnessC2 ==
    \E d \in Descs :
        /\ pc[d] = "failed"
        /\ Cardinality(required_attrs \ Supplied(d)) >= 2
        /\ Supplied(d) # {}

TheoremC4 ==
    [][ReadStep =>
        /\ (last'.res.kind = "raise") =>
            /\ objdict' = objdict
            /\ last'.invoked
            /\ last'.res = Exc("AttributeError", last'.prop, last'.t)
        /\ (lastread[last'.t] = "raise") =>
            /\ last'.invoked
            /\ calls'[last'.prop][last'.t] = calls[last'.prop][last'.t] + 1
        /\ \A t \in Targets : \A k \in DOMAIN objdict'[t] :
            objdict'[t][k].kind = "return"
        /\ (objdict' # objdict) =>
            /\ last'.res.kind = "return"
            /\ objdict'[last'.t][name[last'.prop]] = last'.res
      ]_vars

\* C4 witness: a property raised on a target, was invoked again and the
\* second result is now cached.
WitnessC4 ==
    \E d \in Descs, t \in Targets :
        /\ raised[d][t] >= 1
        /\ calls[d][t] >= 2
        /\ name[d] \in DOMAIN objdict[t]
        /\ objdict[t][name[d]].by = d

\* What C5 says of each state: every value a target returned or caches was
\* computed from that target, and a target only this property was read on
\* (no read raising) had provide_value invoked once.
OwnValues ==
    \A d \in Descs, t \in Targets :
        /\ \A v \in rets[d][t] : v.of = t
        /\ \A k \in DOMAIN objdict[t] : objdict[t][k].of = t
        /\ (reads[d][t] >= 1 /\ raised[d][t] = 0 /\ OnlyReader(d, t)) =>
               calls[d][t] = 1

CounterC6 ==
    \A d \in Descs, t \in Targets :
        /\ \A v \in rets[d][t] : v.by = d
        /\ (reads[d][t] >= 1 /\ raised[d][t] = 0) => calls[d][t] >= 1

\* C7 as stated: when construction fails, nothing has been assigned.
CounterC7 ==
    \A d \in Descs :
        pc[d] = "failed" =>
            /\ DOMAIN inst[d] = {}
            /\ DOMAIN attr_names[d] = {}
            /\ DOMAIN options[d] = {}

\* C7 amended: when construction fails, the loop has visited every supplied
\* key and stored it in its destination; only prepare has not run.
TheoremC7 ==
    \A d \in Descs :
        pc[d] = "failed" =>
            /\ Landed(d)
            /\ assigned_attrs[d] = Supplied(d)
            /\ prepared[d] = 0

\* C7 witness: a failed construction that has set a supplied required
\* attribute as an instance field and added an entry to attr_names.
WitnessC7 ==
    \E d \in Descs :
        /\ pc[d] = "failed"
        /\ DOMAIN inst[d] # {}
        /\ DOMAIN attr_names[d] # {}

TheoremC9 ==
    \A d \in Descs :
        /\ pc[d] = "ready" => prepared[d] = 1
        /\ pc[d] \in {"new", "loop", "failed"} => prepared[d] = 0
        /\ prepared[d] >= 1 =>
            /\ todo[d] = {}
            /\ Landed(d)
            /\ required_attrs \subseteq Supplied(d)
        /\ (last.d = d \/ \E t \in Targets : reads[d][t] > 0) =>
               prepared[d] = 1

\* C9 witness: a constructed descriptor, prepared once, that has been read.
WitnessC9 ==
    \E d \in Descs, t \in Targets :
        /\ pc[d] = "ready" /\ prepared[d] = 1
        /\ Supplied(d) # {}
        /\ reads[d][t] > 0

\* What get_attr must yield: the value of the named field for a registered
\* name (a plain field's content; a lazily computed property's value), an
\* error for a name never registered.
GetAttrOutcome ==
    LET d == last'.d
        t == last'.t
        n == last'.n
        a == attr_names[d][n]
        p == ClassAttrs[a]
    IN  IF n \notin DOMAIN attr_names[d]
        THEN last'.res.kind = "raise" /\ last'.res.exc = "KeyError"
        ELSE IF a \in DOMAIN ClassAttrs /\ pc[p] = "ready"
        THEN last'.res =
                 IF name[p] \in DOMAIN objdict[t] THEN objdict[t][name[p]]
                 ELSE IF "body" \in DOMAIN fields[t]
                      THEN Ret(p, t, fields[t]["body"])
                      ELSE Exc("AttributeError", p, t)
        ELSE IF a \in DOMAIN fields[t]
        THEN last'.res = Ret("-", t, fields[t][a])
        ELSE last'.res.kind = "raise"

\* C10 as stated: get_attr yields the field's value or the error, and
\* leaves attr_names, options and obj unchanged.
CounterC10 ==
    [][GetAttrStep =>
        /\ GetAttrOutcome
        /\ attr_names' = attr_names /\ options' = options
        /\ fields' = fields /\ objdict' = objdict
      ]_vars

\* C10 amended: get_attr yields the field's value or the error and leaves
\* attr_names, options and obj's fields unchanged; obj's cache changes in
\* one case only: the resolved field is a lazily computed property of obj
\* not yet cached, whose value get_attr's read computes and stores.
TheoremC10 ==
    [][GetAttrStep =>
        /\ GetAttrOutcome
        /\ attr_names' = attr_names /\ options' = options
        /\ fields' = fields
        /\ \A t \in Targets \ {last'.t} : objdict'[t] = objdict[t]
        /\ IF /\ last'.prop # "-"
              /\ name[last'.prop] \notin DOMAIN objdict[last'.t]
              /\ last'.res.kind = "return"
           THEN objdict'[last'.t] =
                    Put(objdict[last'.t], name[last'.prop], last'.res)
           ELSE objdict' = objdict
      ]_vars

\* C10 witness: get_attr resolved a registered name to a plain field of
\* the target and returned its content.
WitnessC10 ==
    /\ last.op = "get_attr"
    /\ last.n \in DOMAIN attr_names[last.d]
    /\ last.prop = "-"
    /\ last.res.kind = "return"
    /\ last.res.data = fields[last.t][attr_names[last.d][last.n]]

====
